---- MODULE Spec2Model ----
(***************************************************************************)
(* A model of fanw86/linkedin_scraper: SavedJobsScraper.scrape and its     *)
(* link extraction, and the three scripts create_session.py,               *)
(* scrape_saved_jobs.py and scrape_job_details.py.                         *)
(*                                                                         *)
(* One run of one entry point is one behaviour: Init picks the entry point *)
(* (prog) and its arguments, and every awaited call of the code is one     *)
(* step whose outcome (a value, or an exception) is an input.              *)
(***************************************************************************)
EXTENDS Integers, Sequences, FiniteSets, TLC

(***************************************************************************)
(* Bounds of the model.                                                    *)
(***************************************************************************)
MaxAnchors == 3      \* anchors returned by one locator(...).all()
MaxLimit == 3        \* largest small value of scrape's limit argument
MaxScrollArg == 2    \* largest small value of scrape's max_scrolls argument
MaxPageAnchors == 2  \* anchors on one page of scrape_saved_jobs.main
MaxPages == 3        \* pages the click-pagination may visit
MaxUrls == 3         \* lines of saved_job_urls.txt

(***************************************************************************)
(* Program constants.                                                      *)
(***************************************************************************)
DefaultMaxScrolls == 5   \* scrape's default max_scrolls
max_attempts == 30       \* create_session: samples of the login poll
PollInterval == 10       \* create_session: seconds slept before each sample
WaitSamples == 24        \* scrape_saved_jobs: samples of the manual-login wait

(***************************************************************************)
(* Strings.  A URL is a sequence of tokens; the tokens are the substrings  *)
(* the code looks for ("http", "?", "/jobs/view/") and the text between    *)
(* them.                                                                   *)
(***************************************************************************)
Origin == <<"http", "s://www.linkedin.com">>

Hrefs ==
    { <<"/jobs/view/", "111", "?", "pos=1">>,
      <<"/jobs/view/", "111", "?", "pos=2">>,
      <<"/jobs/view/", "222">>,
      <<"http", "s://www.linkedin.com", "/jobs/view/", "111">>,
      <<"/redirect", "?", "to=", "/jobs/view/", "222">>,
      <<"/feed/">>,
      <<>> }

\* One anchor element: get_attribute("href") returns href (<<>> is None or
\* ""), or raises when ok is FALSE (a stale handle).
Anchors == [ok : {TRUE}, href : Hrefs] \cup [ok : {FALSE}, href : {<<>>}]

RECURSIVE SeqsUpTo(_, _)
SeqsUpTo(S, n) ==
    IF n = 0 THEN {<<>>}
    ELSE LET shorter == SeqsUpTo(S, n - 1)
         IN  shorter \cup {Append(s, x) : s \in {t \in shorter : Len(t) = n - 1}, x \in S}

AnchorLists == SeqsUpTo(Anchors, MaxAnchors)

\* Python's `tok in s`
Contains(s, tok) == \E i \in 1..Len(s) : s[i] = tok

\* Python's s.split("?")[0]
RECURSIVE SplitFirst(_)
SplitFirst(s) ==
    IF s = <<>> \/ Head(s) = "?" THEN <<>>
    ELSE <<Head(s)>> \o SplitFirst(Tail(s))

\* Python's s.startswith("http")
StartsWithHttp(s) == Len(s) > 0 /\ s[1] = "http"

CleanUrl(href) ==
    LET clean_url == IF Contains(href, "?") THEN SplitFirst(href) ELSE href
    IN  IF ~StartsWithHttp(clean_url) THEN Origin \o clean_url ELSE clean_url

\* `not href or "/jobs/view/" not in href`; and a test that looks for the
\* empty href only.
Skipped_onlyempty(href) == href = <<>>

Skipped(href) == href = <<>> \/ ~Contains(href, "/jobs/view/")

(***************************************************************************)
(* SavedJobsScraper._extract_job_urls                                      *)
(***************************************************************************)
\* `if len(job_urls) >= limit: break`, and the same test off by one.
LimitReached_off(job_urls, lim) == Len(job_urls) > lim

LimitReached(job_urls, lim) == Len(job_urls) >= lim

\* `if clean_url not in seen_urls`, and the loop without that test.
NotSeen_always(clean_url, seen_urls) == TRUE

NotSeen(clean_url, seen_urls) == clean_url \notin seen_urls

\* `except Exception: continue`: the index of the next anchor to read; and
\* a handler that gives up the page instead.
AfterReadError_break(i, job_links) == Len(job_links) + 1

AfterReadError(i, job_links) == i + 1

RECURSIVE ExtractLoop(_, _, _, _, _)
ExtractLoop(job_links, i, lim, job_urls, seen_urls) ==
    IF i > Len(job_links) THEN job_urls
    ELSE IF LimitReached(job_urls, lim) THEN job_urls
    ELSE LET link == job_links[i] IN
         IF ~link.ok
         THEN ExtractLoop(job_links, AfterReadError(i, job_links), lim, job_urls, seen_urls)
         ELSE IF Skipped(link.href)
         THEN ExtractLoop(job_links, i + 1, lim, job_urls, seen_urls)
         ELSE LET clean_url == CleanUrl(link.href) IN
              IF NotSeen(clean_url, seen_urls)
              THEN ExtractLoop(job_links, i + 1, lim,
                               Append(job_urls, clean_url), seen_urls \cup {clean_url})
              ELSE ExtractLoop(job_links, i + 1, lim, job_urls, seen_urls)

\* all_ok is FALSE when locator(...).all() raises: the outer except logs
\* and the (still empty) list is returned.
ExtractJobUrls(all_ok, job_links, lim) ==
    IF all_ok THEN ExtractLoop(job_links, 1, lim, <<>>, {}) ELSE <<>>

(***************************************************************************)
(* State.                                                                  *)
(***************************************************************************)
VARIABLES
    prog,             \* the entry point this run executes
    pc,               \* the statement about to run
    browser,          \* the BrowserManager of a script: "unopened", "open", "closed"
    exc,              \* the exception the run ended with (NoExc: none)
    \* SavedJobsScraper.scrape
    limit,
    cb,               \* the callbacks called so far, in order
    on_error_arg,     \* what on_error was called with
    on_complete_arg,  \* what on_complete was called with
    failure,          \* e of `except Exception as e`
    links_ok,         \* locator(...).all() returned
    job_links,        \* what it returned
    job_urls,         \* the list _extract_job_urls returned
    returned, result, \* scrape (or _extract_job_urls) returned result
    \* scroll_page_to_bottom
    max_scrolls,      \* the pager's bound, as scrape passes it
    scrolls,          \* scroll actions issued
    prev_count, cur_count, n_samples,
    \* create_session
    attempt,          \* attempt of `for attempt in range(max_attempts)`
    logged_in,
    samples,          \* calls of is_logged_in
    waited,           \* seconds slept inside the poll loop
    time_elapsed, time_remaining,
    loop_ended,       \* the poll loop was left by break or by exhaustion
    saves,            \* calls of browser.save_session (both scripts)
    \* scrape_saved_jobs.main
    current_url,
    wait_i,           \* i of `for i in range(24)`
    page_num, all_job_urls,
    next_button_count, is_disabled,
    page_scrolls,     \* scroll-to-bottom evaluations of the pagination
    passes,           \* extraction passes of the pagination
    clicks,           \* clicks on the Next button
    \* scrape_job_details.main
    n_urls,           \* len(job_urls) read from saved_job_urls.txt
    url_i,            \* i of `for i, url in enumerate(job_urls, 1)`
    jobs_data,        \* the indexes of the URLs whose record was appended
    jd_log,           \* scrape requests and rate-limit sleeps, in order
    written           \* result files written (both scripts)

scrapeVars == <<limit, cb, on_error_arg, on_complete_arg, failure,
                links_ok, job_links, job_urls, returned, result>>
scrollVars == <<max_scrolls, scrolls, prev_count, cur_count, n_samples>>
csVars == <<attempt, logged_in, samples, waited, time_elapsed, time_remaining, loop_ended>>
smVars == <<current_url, wait_i, page_num, all_job_urls, next_button_count,
            is_disabled, page_scrolls, passes, clicks>>
jdVars == <<n_urls, url_i, jobs_data, jd_log>>
vars == <<prog, pc, browser, exc, scrapeVars, scrollVars, csVars, smVars, jdVars,
          saves, written>>

\* What a step of scrape leaves alone besides scrape's own variables.
scriptVars == <<browser, csVars, smVars, jdVars, saves, written>>

\* What a step of a script leaves alone of the scraper's variables.
scrapeRest == <<limit, cb, on_error_arg, on_complete_arg, failure, links_ok,
                job_urls, returned, result, scrollVars>>
libVars == <<scrapeRest, job_links>>

NoExc == [type |-> "none", desc |-> <<>>]

\* The exception a failing step raises: its description names the step.
Fail(type, step) == [type |-> type, desc |-> <<step>>]

Limits == (-1 .. MaxLimit) \cup {10}
ScrollArgs == (0 .. MaxScrollArg) \cup {DefaultMaxScrolls}
ItemCounts == 10 .. (10 + DefaultMaxScrolls)

NoUrl == <<>>

ScrapeInit ==
    /\ cb = <<>>
    /\ on_error_arg = NoExc
    /\ on_complete_arg = <<>>
    /\ failure = NoExc
    /\ links_ok = FALSE
    /\ job_links = <<>>
    /\ job_urls = <<>>
    /\ returned = FALSE
    /\ result = <<>>

ScrollInit ==
    /\ max_scrolls = 0
    /\ scrolls = 0
    /\ prev_count = 0
    /\ cur_count = 0
    /\ n_samples = 0

CsInit ==
    /\ attempt = 0
    /\ logged_in = FALSE
    /\ samples = 0
    /\ waited = 0
    /\ time_elapsed = 0
    /\ time_remaining = 0
    /\ loop_ended = FALSE

SmInit ==
    /\ current_url = NoUrl
    /\ wait_i = 0
    /\ page_num = 0
    /\ all_job_urls = <<>>
    /\ next_button_count = 0
    /\ is_disabled = FALSE
    /\ page_scrolls = 0
    /\ passes = 0
    /\ clicks = 0

JdInit ==
    /\ url_i = 0
    /\ jobs_data = <<>>
    /\ jd_log = <<>>

InitScrape ==
    /\ prog = "scrape"
    /\ pc = "on_start"
    /\ limit \in Limits
    /\ n_urls = 0

\* _extract_job_urls called on its own, with any limit.
InitExtract ==
    /\ prog = "_extract_job_urls"
    /\ pc = "extract_call"
    /\ limit \in Limits
    /\ n_urls = 0

InitCreateSession ==
    /\ prog = "create_session"
    /\ pc = "cs_enter"
    /\ limit = 0
    /\ n_urls = 0

InitSavedJobsMain ==
    /\ prog = "scrape_saved_jobs"
    /\ pc = "sm_enter"
    /\ limit = 0
    /\ n_urls = 0

\* saved_job_urls.txt holds any number of URLs.
InitJobDetailsMain ==
    /\ prog = "scrape_job_details"
    /\ pc = "jd_open"
    /\ limit = 0
    /\ n_urls \in 0 .. MaxUrls

Init ==
    /\ browser = "unopened"
    /\ exc = NoExc
    /\ saves = 0
    /\ written = 0
    /\ ScrapeInit
    /\ ScrollInit
    /\ CsInit
    /\ SmInit
    /\ JdInit
    /\ \/ InitScrape
       \/ InitExtract
       \/ InitCreateSession
       \/ InitSavedJobsMain
       \/ InitJobDetailsMain

(***************************************************************************)
(* SavedJobsScraper.scrape                                                 *)
(***************************************************************************)
\* A statement of the try block that calls no callback: it returns, or it
\* raises and control goes to the except clause.
TryStep(here, next, types) ==
    /\ prog = "scrape"
    /\ pc = here
    /\ \/ /\ pc' = next
          /\ failure' = failure
       \/ \E t \in types :
             /\ pc' = "except"
             /\ failure' = Fail(t, here)

\* A callback called inside the try block.
TryCallback(here, name, next) ==
    /\ prog = "scrape"
    /\ pc = here
    /\ cb' = Append(cb, name)
    /\ \/ /\ pc' = next
          /\ failure' = failure
       \/ /\ pc' = "except"
          /\ failure' = Fail("Error", here)

\* `if limit <= 0: return []`
EarlyReturn(lim) == lim <= 0

\* on_start, then `if limit <= 0: return []`.  on_start is called outside
\* the try block: what it raises reaches the caller as it is.
OnStart ==
    /\ prog = "scrape"
    /\ pc = "on_start"
    /\ cb' = Append(cb, "on_start")
    /\ \/ /\ EarlyReturn(limit)
          /\ pc' = "done"
          /\ returned' = TRUE
          /\ result' = <<>>
          /\ exc' = exc
       \/ /\ ~EarlyReturn(limit)
          /\ pc' = "navigate_and_wait"
          /\ UNCHANGED <<returned, result, exc>>
       \/ /\ pc' = "done"
          /\ exc' = Fail("Error", "on_start")
          /\ UNCHANGED <<returned, result>>
    /\ UNCHANGED <<prog, limit, on_error_arg, on_complete_arg,
                   failure, links_ok, job_links, job_urls, scrollVars, scriptVars>>

NavigateAndWait ==
    /\ TryStep("navigate_and_wait", "on_progress_10", {"Error"})
    /\ UNCHANGED <<prog, exc, limit, cb, on_error_arg, on_complete_arg,
                   links_ok, job_links, job_urls, returned, result, scrollVars,
                   scriptVars>>

OnProgress10 ==
    /\ TryCallback("on_progress_10", "on_progress", "ensure_logged_in")
    /\ UNCHANGED <<prog, exc, limit, on_error_arg, on_complete_arg,
                   links_ok, job_links, job_urls, returned, result, scrollVars,
                   scriptVars>>

\* ensure_logged_in raises AuthenticationError when the user is not logged in.
EnsureLoggedIn ==
    /\ TryStep("ensure_logged_in", "wait_for_selector", {"AuthenticationError", "Error"})
    /\ UNCHANGED <<prog, exc, limit, cb, on_error_arg, on_complete_arg,
                   links_ok, job_links, job_urls, returned, result, scrollVars,
                   scriptVars>>

WaitForSelector ==
    /\ TryStep("wait_for_selector", "wait_and_focus", {"Error"})
    /\ UNCHANGED <<prog, exc, limit, cb, on_error_arg, on_complete_arg,
                   links_ok, job_links, job_urls, returned, result, scrollVars,
                   scriptVars>>

WaitAndFocus ==
    /\ TryStep("wait_and_focus", "close_modals", {"Error"})
    /\ UNCHANGED <<prog, exc, limit, cb, on_error_arg, on_complete_arg,
                   links_ok, job_links, job_urls, returned, result, scrollVars,
                   scriptVars>>

\* close_modals, then the scroll traversal; and a scrape that goes from
\* close_modals straight to the extraction.
CloseModals_noscroll ==
    /\ TryStep("close_modals", "_extract_job_urls", {"Error"})
    /\ UNCHANGED <<prog, exc, limit, cb, on_error_arg, on_complete_arg,
                   links_ok, job_links, job_urls, returned, result, scrollVars,
                   scriptVars>>

CloseModals ==
    /\ TryStep("close_modals", "scroll_READY", {"Error"})
    /\ UNCHANGED <<prog, exc, limit, cb, on_error_arg, on_complete_arg,
                   links_ok, job_links, job_urls, returned, result, scrollVars,
                   scriptVars>>

(***************************************************************************)
(* scroll_page_to_bottom(pause_time, max_scrolls): the ScrollPager.        *)
(* READY: the item count is sampled; SCROLLING: one scroll-to-bottom, the  *)
(* pause, a sample; STABLE: the sample equals the one before; DONE:        *)
(* max_scrolls scroll actions were issued.                                 *)
(***************************************************************************)
\* May another scroll action be issued?
MayScroll(n, max) == n < max

\* Where the pager goes after a sample c that follows a sample p; and a
\* pager that does not compare the samples.
AfterSample_ignore(p, c) == {"scroll_SCROLLING"}

AfterSample(p, c) ==
    IF c = p THEN {"scroll_STABLE"}
    ELSE IF c > p THEN {"scroll_SCROLLING"}
    ELSE {"scroll_SCROLLING", "scroll_STABLE"}

ScrollReady ==
    /\ prog = "scrape"
    /\ pc = "scroll_READY"
    /\ \/ \E m \in ScrollArgs, c \in ItemCounts :
             /\ max_scrolls' = m
             /\ cur_count' = c
             /\ n_samples' = 1
             /\ pc' = "scroll_SCROLLING"
             /\ UNCHANGED <<failure, scrolls, prev_count>>
       \/ /\ pc' = "except"
          /\ failure' = Fail("Error", "scroll_page_to_bottom")
          /\ UNCHANGED scrollVars
    /\ UNCHANGED <<prog, exc, limit, cb, on_error_arg, on_complete_arg,
                   links_ok, job_links, job_urls, returned, result, scriptVars>>

ScrollOnce ==
    /\ prog = "scrape"
    /\ pc = "scroll_SCROLLING"
    /\ MayScroll(scrolls, max_scrolls)
    /\ \/ \E c \in ItemCounts :
             /\ scrolls' = scrolls + 1
             /\ prev_count' = cur_count
             /\ cur_count' = c
             /\ n_samples' = n_samples + 1
             /\ pc' \in AfterSample(cur_count, c)
             /\ UNCHANGED <<failure, max_scrolls>>
       \/ /\ pc' = "except"
          /\ failure' = Fail("Error", "scroll_page_to_bottom")
          /\ max_scrolls' = 0
          /\ scrolls' = 0
          /\ prev_count' = 0
          /\ cur_count' = 0
          /\ n_samples' = 0
    /\ UNCHANGED <<prog, exc, limit, cb, on_error_arg, on_complete_arg,
                   links_ok, job_links, job_urls, returned, result, scriptVars>>

ScrollMaxReached ==
    /\ prog = "scrape"
    /\ pc = "scroll_SCROLLING"
    /\ ~MayScroll(scrolls, max_scrolls)
    /\ pc' = "scroll_DONE"
    /\ UNCHANGED <<prog, exc, scrapeVars, scrollVars, scriptVars>>

\* The pager returns: its cursor is discarded.
ScrollReturn ==
    /\ prog = "scrape"
    /\ pc \in {"scroll_STABLE", "scroll_DONE"}
    /\ pc' = "_extract_job_urls"
    /\ max_scrolls' = 0
    /\ scrolls' = 0
    /\ prev_count' = 0
    /\ cur_count' = 0
    /\ n_samples' = 0
    /\ UNCHANGED <<prog, exc, scrapeVars, scriptVars>>

(***************************************************************************)
(* The rest of scrape.                                                     *)
(***************************************************************************)
\* job_urls = await self._extract_job_urls(limit): it never raises.
ExtractCall ==
    /\ prog \in {"scrape", "_extract_job_urls"}
    /\ pc = (IF prog = "scrape" THEN "_extract_job_urls" ELSE "extract_call")
    /\ \E all_ok \in BOOLEAN :
       \E links \in (IF all_ok THEN AnchorLists ELSE {<<>>}) :
          /\ links_ok' = all_ok
          /\ job_links' = links
          /\ job_urls' = ExtractJobUrls(all_ok, links, limit)
    /\ IF prog = "scrape"
       THEN /\ pc' = "on_progress_90"
            /\ UNCHANGED <<returned, result>>
       ELSE /\ pc' = "done"
            /\ returned' = TRUE
            /\ result' = job_urls'
    /\ UNCHANGED <<prog, exc, limit, cb, on_error_arg, on_complete_arg,
                   failure, scrollVars, scriptVars>>

OnProgress90 ==
    /\ TryCallback("on_progress_90", "on_progress", "on_complete")
    /\ UNCHANGED <<prog, exc, limit, on_error_arg, on_complete_arg,
                   links_ok, job_links, job_urls, returned, result, scrollVars,
                   scriptVars>>

OnComplete ==
    /\ TryCallback("on_complete", "on_complete", "return")
    /\ on_complete_arg' = job_urls
    /\ UNCHANGED <<prog, exc, limit, on_error_arg,
                   links_ok, job_links, job_urls, returned, result, scrollVars,
                   scriptVars>>

Return ==
    /\ prog = "scrape"
    /\ pc = "return"
    /\ pc' = "done"
    /\ returned' = TRUE
    /\ result' = job_urls
    /\ UNCHANGED <<prog, exc, limit, cb, on_error_arg, on_complete_arg,
                   failure, links_ok, job_links, job_urls, scrollVars, scriptVars>>

\* raise ScrapingError(f"Failed to scrape saved jobs: {e}"); and the same
\* raise without the cause in its message.
ScrapingError_bare(e) ==
    [type |-> "ScrapingError", desc |-> <<"Failed to scrape saved jobs">>]

ScrapingError(e) ==
    [type |-> "ScrapingError", desc |-> <<"Failed to scrape saved jobs: ">> \o e.desc]

\* except Exception as e: on_error(e), then the raise.  When on_error itself
\* raises, that exception leaves scrape in place of the ScrapingError.
Except ==
    /\ prog = "scrape"
    /\ pc = "except"
    /\ cb' = Append(cb, "on_error")
    /\ on_error_arg' = failure
    /\ pc' = "done"
    /\ \/ exc' = ScrapingError(failure)
       \/ exc' = Fail("Error", "on_error")
    /\ UNCHANGED <<prog, limit, on_complete_arg, failure, links_ok,
                   job_links, job_urls, returned, result, scrollVars, scriptVars>>

(***************************************************************************)
(* async with BrowserManager(headless=False) as browser: the body's end,   *)
(* by falling off it or by an exception e leaving it, runs __aexit__,      *)
(* which closes the browser; the exception then leaves the script.         *)
(***************************************************************************)
\* The browser after the block; and a close at the end of the body only,
\* which an exception skips.
BrowserAfterWith_onlyclean(e) == IF e = NoExc THEN "closed" ELSE "open"

BrowserAfterWith(e) == "closed"

AEnter(here, next) ==
    /\ pc = here
    /\ browser' = "open"
    /\ pc' = next

AExit ==
    /\ prog \in {"create_session", "scrape_saved_jobs", "scrape_job_details"}
    /\ pc = "aexit"
    /\ browser' = BrowserAfterWith(exc)
    /\ pc' = "done"
    /\ UNCHANGED <<prog, exc, libVars, csVars, smVars, jdVars, saves, written>>

\* An awaited call of the body outside any try: it returns, or what it
\* raises leaves the async with block.
Await(here, next) ==
    /\ pc = here
    /\ \/ /\ pc' = next
          /\ exc' = exc
       \/ /\ pc' = "aexit"
          /\ exc' = Fail("Error", here)

(***************************************************************************)
(* create_session.py                                                       *)
(***************************************************************************)
CsEnter ==
    /\ prog = "create_session"
    /\ AEnter("cs_enter", "cs_goto")
    /\ UNCHANGED <<prog, exc, libVars, csVars, smVars, jdVars, saves, written>>

\* page.goto(login), then sleep(3)
CsGoto ==
    /\ prog = "create_session"
    /\ Await("cs_goto", "cs_poll")
    /\ UNCHANGED <<prog, browser, libVars, csVars, smVars, jdVars, saves, written>>

\* for attempt in range(max_attempts)
PollAgain(a) == a < max_attempts

\* time_elapsed = (attempt + 1) * 10, printed with time_remaining; and an
\* elapsed time that forgets that range() counts from 0.
TimeElapsed_fromzero(a) == a * 10

TimeElapsed(a) == (a + 1) * 10

TimeRemaining(a) == (max_attempts * 10) - TimeElapsed(a)

\* `if logged_in: break`: does the loop go on after this sample?  And the
\* loop without its break.
NextSample_nobreak(li) == TRUE

NextSample(li) == ~li

\* One iteration: sleep(10), the sample, the two times, the break.
CsPoll ==
    /\ prog = "create_session"
    /\ pc = "cs_poll"
    /\ PollAgain(attempt)
    /\ waited' = waited + PollInterval
    /\ samples' = samples + 1
    /\ \/ \E li \in BOOLEAN :
             /\ logged_in' = li
             /\ time_elapsed' = TimeElapsed(attempt)
             /\ time_remaining' = TimeRemaining(attempt)
             /\ IF NextSample(li)
                THEN /\ attempt' = attempt + 1
                     /\ UNCHANGED <<pc, loop_ended>>
                ELSE /\ pc' = "cs_after_loop"
                     /\ loop_ended' = TRUE
                     /\ attempt' = attempt
             /\ exc' = exc
       \/ /\ pc' = "aexit"
          /\ exc' = Fail("Error", "is_logged_in")
          /\ UNCHANGED <<attempt, logged_in, time_elapsed, time_remaining, loop_ended>>
    /\ UNCHANGED <<prog, browser, libVars, smVars, jdVars, saves, written>>

\* range(max_attempts) is exhausted.
CsPollExhausted ==
    /\ prog = "create_session"
    /\ pc = "cs_poll"
    /\ ~PollAgain(attempt)
    /\ pc' = "cs_after_loop"
    /\ loop_ended' = TRUE
    /\ UNCHANGED <<prog, browser, exc, libVars, attempt, logged_in, samples, waited,
                   time_elapsed, time_remaining, smVars, jdVars, saves, written>>

\* `if logged_in: ... save_session ... else: ... save_session ...`: the calls
\* of save_session on the branch taken; and a script that saves only a
\* detected login.
SaveCalls_onlyloggedin(li) == IF li THEN 1 ELSE 0

SaveCalls(li) == IF li THEN 1 ELSE 1

\* The branch after the loop: save_session, then sleep(10).
CsAfterLoop ==
    /\ prog = "create_session"
    /\ pc = "cs_after_loop"
    /\ saves' = saves + SaveCalls(logged_in)
    /\ pc' = "aexit"
    /\ \/ exc' = exc
       \/ SaveCalls(logged_in) > 0 /\ exc' = Fail("Error", "save_session")
    /\ UNCHANGED <<prog, browser, libVars, csVars, smVars, jdVars, written>>

CreateSessionNext ==
    \/ CsEnter
    \/ CsGoto
    \/ CsPoll
    \/ CsPollExhausted
    \/ CsAfterLoop

(***************************************************************************)
(* scrape_saved_jobs.py                                                    *)
(***************************************************************************)
\* The URLs the browser may show.
BrowserUrls ==
    { <<"https://www.linkedin.com/", "my-items/saved-jobs", "/">>,
      <<"https://www.linkedin.com/", "feed", "/">>,
      <<"https://www.linkedin.com/", "login">>,
      <<"https://www.linkedin.com/", "authwall", "?trk=x">>,
      <<"https://www.linkedin.com/uas/", "login", "?session_redirect=", "feed">>,
      <<"https://www.linkedin.com/", "checkpoint/challenge">> }

PageAnchorLists == SeqsUpTo(Anchors, MaxPageAnchors)

\* "login" in current_url or "authwall" in current_url
OnLoginPage(url) == Contains(url, "login") \/ Contains(url, "authwall")

\* "my-items/saved-jobs" in current_url or "feed" in current_url
LoginDetected(url) == Contains(url, "my-items/saved-jobs") \/ Contains(url, "feed")

SmEnter ==
    /\ prog = "scrape_saved_jobs"
    /\ AEnter("sm_enter", "sm_load_session")
    /\ UNCHANGED <<prog, exc, libVars, csVars, smVars, jdVars, saves, written>>

SmLoadSession ==
    /\ prog = "scrape_saved_jobs"
    /\ Await("sm_load_session", "sm_goto")
    /\ UNCHANGED <<prog, browser, libVars, csVars, smVars, jdVars, saves, written>>

\* page.goto(saved jobs), sleep(5), current_url = page.url, the test for
\* the login page.
SmGoto ==
    /\ prog = "scrape_saved_jobs"
    /\ pc = "sm_goto"
    /\ \/ \E url \in BrowserUrls :
             /\ current_url' = url
             /\ pc' = (IF OnLoginPage(url) THEN "sm_wait" ELSE "sm_try")
             /\ exc' = exc
       \/ /\ pc' = "aexit"
          /\ exc' = Fail("Error", "goto")
          /\ current_url' = current_url
    /\ UNCHANGED <<prog, browser, libVars, csVars, wait_i, page_num, all_job_urls,
                   next_button_count, is_disabled, page_scrolls, passes, clicks,
                   jdVars, saves, written>>

\* for i in range(24); and a wait that takes one sample more.
WaitAgain_more(i) == i <= WaitSamples

WaitAgain(i) == i < WaitSamples

\* One iteration of the wait: sleep(5), the URL, the test.
SmWait ==
    /\ prog = "scrape_saved_jobs"
    /\ pc = "sm_wait"
    /\ WaitAgain(wait_i)
    /\ \E url \in BrowserUrls :
          /\ current_url' = url
          /\ IF LoginDetected(url)
             THEN /\ pc' = "sm_save_session"
                  /\ wait_i' = wait_i
             ELSE /\ pc' = pc
                  /\ wait_i' = wait_i + 1
    /\ UNCHANGED <<prog, browser, exc, libVars, csVars, page_num, all_job_urls,
                   next_button_count, is_disabled, page_scrolls, passes, clicks,
                   jdVars, saves, written>>

SmWaitExhausted ==
    /\ prog = "scrape_saved_jobs"
    /\ pc = "sm_wait"
    /\ ~WaitAgain(wait_i)
    /\ pc' = "sm_try"
    /\ UNCHANGED <<prog, browser, exc, libVars, csVars, smVars, jdVars, saves, written>>

SmSaveSession ==
    /\ prog = "scrape_saved_jobs"
    /\ Await("sm_save_session", "sm_goto_back")
    /\ saves' = saves + 1
    /\ UNCHANGED <<prog, browser, libVars, csVars, smVars, jdVars, written>>

\* page.goto(saved jobs), sleep(3), break
SmGotoBack ==
    /\ prog = "scrape_saved_jobs"
    /\ Await("sm_goto_back", "sm_try")
    /\ UNCHANGED <<prog, browser, libVars, csVars, smVars, jdVars, saves, written>>

\* try: sleep(3); all_job_urls = []; page_num = 1.  current_url and i are
\* not read again.
SmTry ==
    /\ prog = "scrape_saved_jobs"
    /\ pc = "sm_try"
    /\ pc' = "sm_scroll"
    /\ all_job_urls' = <<>>
    /\ page_num' = 1
    /\ current_url' = NoUrl
    /\ wait_i' = 0
    /\ UNCHANGED <<prog, browser, exc, libVars, csVars,
                   next_button_count, is_disabled, page_scrolls, passes, clicks,
                   jdVars, saves, written>>

\* A call inside the try block: it returns, or the except clause gets what
\* it raises.
Guarded(here, next) ==
    /\ prog = "scrape_saved_jobs"
    /\ pc = here
    /\ pc' \in {next, "sm_except"}

\* page.evaluate(scrollTo bottom), sleep(2)
SmScroll ==
    /\ Guarded("sm_scroll", "sm_extract")
    /\ page_scrolls' = (IF pc' = "sm_extract" THEN page_scrolls + 1 ELSE page_scrolls)
    /\ UNCHANGED <<prog, browser, exc, libVars, csVars, current_url, wait_i, page_num,
                   all_job_urls, next_button_count, is_disabled, passes, clicks,
                   jdVars, saves, written>>

InlineCleanUrl(href) ==
    LET clean_url == IF Contains(href, "?") THEN SplitFirst(href) ELSE href
    IN  IF ~StartsWithHttp(clean_url) THEN Origin \o clean_url ELSE clean_url

\* `except: continue`: the index of the next anchor to read.
InlineAfterReadError(i, links) == i + 1

\* `if clean_url not in all_job_urls`; and a test that forgets what the
\* earlier pages brought.
InlineNotSeen_always(clean_url, acc) == TRUE

InlineNotSeen(clean_url, acc) == ~Contains(acc, clean_url)

\* for link in job_links: ...
RECURSIVE InlineLoop(_, _, _)
InlineLoop(links, i, acc) ==
    IF i > Len(links) THEN acc
    ELSE LET link == links[i] IN
         IF ~link.ok
         THEN InlineLoop(links, InlineAfterReadError(i, links), acc)
         ELSE IF link.href # <<>> /\ Contains(link.href, "/jobs/view/")
         THEN LET clean_url == InlineCleanUrl(link.href) IN
              IF InlineNotSeen(clean_url, acc)
              THEN InlineLoop(links, i + 1, Append(acc, clean_url))
              ELSE InlineLoop(links, i + 1, acc)
         ELSE InlineLoop(links, i + 1, acc)

\* job_links = locator(...).all(), then the extraction loop.
SmExtract ==
    /\ prog = "scrape_saved_jobs"
    /\ pc = "sm_extract"
    /\ \/ \E links \in PageAnchorLists :
             /\ job_links' = links
             /\ all_job_urls' = InlineLoop(links, 1, all_job_urls)
             /\ passes' = passes + 1
             /\ pc' = "sm_next_button"
       \/ /\ pc' = "sm_except"
          /\ UNCHANGED <<job_links, all_job_urls, passes>>
    /\ UNCHANGED <<prog, browser, exc, scrapeRest, csVars, current_url, wait_i, page_num,
                   next_button_count, is_disabled, page_scrolls, clicks,
                   jdVars, saves, written>>

\* next_button_count = await next_button.count().  job_links is not read
\* again before the next page assigns it.
SmNextButtonCount ==
    /\ prog = "scrape_saved_jobs"
    /\ pc = "sm_next_button"
    /\ job_links' = <<>>
    /\ \/ \E n \in 0 .. 2 :
             /\ next_button_count' = n
             /\ pc' = (IF n > 0 THEN "sm_is_disabled" ELSE "sm_after_loop")
       \/ /\ pc' = "sm_except"
          /\ next_button_count' = next_button_count
    /\ UNCHANGED <<prog, browser, exc, scrapeRest, csVars, current_url, wait_i, page_num,
                   all_job_urls, is_disabled, page_scrolls, passes, clicks,
                   jdVars, saves, written>>

\* `if not is_disabled: click ... else: break`; and a pager that clicks
\* whatever is_disabled() returned.
AfterIsDisabled_click(d) == "sm_click"

AfterIsDisabled(d) == IF ~d THEN "sm_click" ELSE "sm_after_loop"

\* is_disabled = await next_button.first.is_disabled()
SmIsDisabled ==
    /\ prog = "scrape_saved_jobs"
    /\ pc = "sm_is_disabled"
    /\ \/ \E d \in BOOLEAN :
             /\ is_disabled' = d
             /\ pc' = AfterIsDisabled(d)
       \/ /\ pc' = "sm_except"
          /\ is_disabled' = is_disabled
    /\ UNCHANGED <<prog, browser, exc, libVars, csVars, current_url, wait_i, page_num,
                   all_job_urls, next_button_count, page_scrolls, passes, clicks,
                   jdVars, saves, written>>

\* `while True:` tests nothing; and a loop that gives up at a page count.
LoopAgain_ceiling(p) == p < MaxPages

LoopAgain(p) == TRUE

\* next_button.first.click(), sleep(3), page_num += 1, and the loop's next
\* round.  The page index is explored up to MaxPages: a run that would
\* click on from there is followed no further.
SmClick ==
    /\ prog = "scrape_saved_jobs"
    /\ pc = "sm_click"
    /\ page_num < MaxPages
    /\ clicks' = clicks + 1
    /\ \/ /\ page_num' = page_num + 1
          /\ pc' = (IF LoopAgain(page_num + 1) THEN "sm_scroll" ELSE "sm_after_loop")
       \/ /\ pc' = "sm_except"
          /\ page_num' = page_num
    /\ UNCHANGED <<prog, browser, exc, libVars, csVars, current_url, wait_i,
                   all_job_urls, next_button_count, is_disabled, page_scrolls, passes,
                   jdVars, saves, written>>

\* After the loop: the URLs are written to saved_job_urls.txt when there
\* are any.
SmAfterLoop ==
    /\ prog = "scrape_saved_jobs"
    /\ pc = "sm_after_loop"
    /\ \/ /\ all_job_urls # <<>>
          /\ \/ /\ written' = written + 1
                /\ pc' = "aexit"
             \/ /\ written' = written
                /\ pc' = "sm_except"
       \/ /\ all_job_urls = <<>>
          /\ written' = written
          /\ pc' = "aexit"
    /\ UNCHANGED <<prog, browser, exc, libVars, csVars, smVars, jdVars, saves>>

\* except Exception as e: print; then sleep(30)
SmExcept ==
    /\ prog = "scrape_saved_jobs"
    /\ pc = "sm_except"
    /\ pc' = "aexit"
    /\ UNCHANGED <<prog, browser, exc, libVars, csVars, smVars, jdVars, saves, written>>

SavedJobsMainNext ==
    \/ SmEnter
    \/ SmLoadSession
    \/ SmGoto
    \/ SmWait
    \/ SmWaitExhausted
    \/ SmSaveSession
    \/ SmGotoBack
    \/ SmTry
    \/ SmScroll
    \/ SmExtract
    \/ SmNextButtonCount
    \/ SmIsDisabled
    \/ SmClick
    \/ SmAfterLoop
    \/ SmExcept

(***************************************************************************)
(* scrape_job_details.py                                                   *)
(***************************************************************************)
\* open("saved_job_urls.txt"): before the browser is started.
JdOpen ==
    /\ prog = "scrape_job_details"
    /\ pc = "jd_open"
    /\ \/ /\ pc' = "jd_enter"
          /\ exc' = exc
       \/ /\ pc' = "done"
          /\ exc' = Fail("Error", "open")
    /\ UNCHANGED <<prog, browser, libVars, csVars, smVars, jdVars, saves, written>>

JdEnter ==
    /\ prog = "scrape_job_details"
    /\ AEnter("jd_enter", "jd_load_session")
    /\ UNCHANGED <<prog, exc, libVars, csVars, smVars, jdVars, saves, written>>

JdLoadSession ==
    /\ prog = "scrape_job_details"
    /\ Await("jd_load_session", "jd_loop")
    /\ UNCHANGED <<prog, browser, libVars, csVars, smVars, jdVars, saves, written>>

\* `except Exception as e: print; continue`: the number of URLs done with
\* after attempt i of n failed; and an except clause that leaves the loop.
JdAfterError_break(i, n) == n

JdAfterError(i, n) == i

\* One iteration of `for i, url in enumerate(job_urls, 1)`: the scrape, the
\* append, the rate-limit sleep; `except: continue` when scrape raises.
\* jd_log records each request with its outcome and each sleep.
JdScrape ==
    /\ prog = "scrape_job_details"
    /\ pc = "jd_loop"
    /\ url_i < n_urls
    /\ LET i == url_i + 1
       IN  \/ /\ url_i' = i
              /\ jobs_data' = Append(jobs_data, i)
              /\ jd_log' = (IF i < n_urls
                            THEN jd_log \o <<[ev |-> "scrape", i |-> i, ok |-> TRUE],
                                             [ev |-> "sleep", i |-> i, ok |-> TRUE]>>
                            ELSE Append(jd_log, [ev |-> "scrape", i |-> i, ok |-> TRUE]))
           \/ /\ url_i' = JdAfterError(i, n_urls)
              /\ jobs_data' = jobs_data
              /\ jd_log' = Append(jd_log, [ev |-> "scrape", i |-> i, ok |-> FALSE])
    /\ UNCHANGED <<prog, pc, browser, exc, libVars, csVars, smVars, n_urls, saves, written>>

\* json.dump(jobs_data, f)
JdWrite ==
    /\ prog = "scrape_job_details"
    /\ pc = "jd_loop"
    /\ url_i >= n_urls
    /\ pc' = "aexit"
    /\ \/ /\ written' = written + 1
          /\ exc' = exc
       \/ /\ written' = written
          /\ exc' = Fail("Error", "json.dump")
    /\ UNCHANGED <<prog, browser, libVars, csVars, smVars, jdVars, saves>>

JobDetailsMainNext ==
    \/ JdOpen
    \/ JdEnter
    \/ JdLoadSession
    \/ JdScrape
    \/ JdWrite

ScrapeNext ==
    \/ OnStart
    \/ NavigateAndWait
    \/ OnProgress10
    \/ EnsureLoggedIn
    \/ WaitForSelector
    \/ WaitAndFocus
    \/ CloseModals
    \/ ScrollReady
    \/ ScrollOnce
    \/ ScrollMaxReached
    \/ ScrollReturn
    \/ ExtractCall
    \/ OnProgress90
    \/ OnComplete
    \/ Return
    \/ Except

Next ==
    \/ ScrapeNext
    \/ CreateSessionNext
    \/ SavedJobsMainNext
    \/ JobDetailsMainNext
    \/ AExit

Spec == Init /\ [][Next]_vars

(***************************************************************************)
(* What the claims speak of, stated from their own words.                  *)
(***************************************************************************)
\* The hrefs that could be read, in page order.
RECURSIVE ReadableHrefs(_)
ReadableHrefs(links) ==
    IF links = <<>> THEN <<>>
    ELSE IF Head(links).ok THEN <<Head(links).href>> \o ReadableHrefs(Tail(links))
    ELSE ReadableHrefs(Tail(links))

\* A matching href: one that is there and holds the job-posting path segment.
Matching(h) == \E i \in DOMAIN h : h[i] = "/jobs/view/"

\* The normalized URL: the text before the first "?", prefixed with the
\* site origin when it does not start with "http".
QueryAt(h) ==
    IF \E i \in DOMAIN h : h[i] = "?"
    THEN CHOOSE i \in DOMAIN h : h[i] = "?" /\ \A j \in 1 .. (i - 1) : h[j] # "?"
    ELSE Len(h) + 1

Normalized(h) ==
    LET before == SubSeq(h, 1, QueryAt(h) - 1)
    IN  IF before # <<>> /\ before[1] = "http"
        THEN before
        ELSE <<"http", "s://www.linkedin.com">> \o before

\* The distinct normalized URLs of the first n hrefs, in first-seen order,
\* after those of acc.
RECURSIVE FirstSeen(_, _, _)
FirstSeen(acc, hrefs, n) ==
    IF n = 0 THEN acc
    ELSE LET sofar == FirstSeen(acc, hrefs, n - 1)
             u == Normalized(hrefs[n])
         IN  IF Matching(hrefs[n]) /\ \A k \in DOMAIN sofar : sofar[k] # u
             THEN Append(sofar, u)
             ELSE sofar

PageUrls(links) == FirstSeen(<<>>, ReadableHrefs(links), Len(ReadableHrefs(links)))

Take(s, n) == SubSeq(s, 1, IF n < Len(s) THEN n ELSE Len(s))

NoDuplicates(s) == \A i, j \in DOMAIN s : i < j => s[i] # s[j]

\* The place of the first readable matching anchor that normalizes to u.
FirstAnchorOf(links, u) ==
    CHOOSE k \in DOMAIN links :
        /\ links[k].ok /\ Matching(links[k].href) /\ Normalized(links[k].href) = u
        /\ \A m \in 1 .. (k - 1) :
              ~(links[m].ok /\ Matching(links[m].href) /\ Normalized(links[m].href) = u)

ExampleAnchors ==
    << [ok |-> TRUE, href |-> <<"/jobs/view/", "111", "?", "pos=1">>],
       [ok |-> TRUE, href |-> <<"/jobs/view/", "111", "?", "pos=2">>],
       [ok |-> TRUE, href |-> <<"/jobs/view/", "222">>] >>

(***************************************************************************)
(* C1.  _extract_job_urls returns each normalized URL at most once, every  *)
(* returned URL is the normalized href of a readable matching anchor, and  *)
(* the URLs stand in the order of their first occurrence among the         *)
(* anchors; the three anchors 111?pos=1, 111?pos=2, 222 with limit 10      *)
(* give exactly the two URLs 111 and 222.                                  *)
(***************************************************************************)
C1_DedupFirstSeen ==
    /\ NoDuplicates(job_urls)
    /\ \A i \in DOMAIN job_urls :
          \E k \in DOMAIN job_links :
             /\ job_links[k].ok
             /\ Matching(job_links[k].href)
             /\ Normalized(job_links[k].href) = job_urls[i]
    /\ \A i, j \in DOMAIN job_urls :
          i < j => FirstAnchorOf(job_links, job_urls[i]) < FirstAnchorOf(job_links, job_urls[j])
    /\ (links_ok /\ job_links = ExampleAnchors /\ limit = 10) =>
          job_urls = << <<"http", "s://www.linkedin.com", "/jobs/view/", "111">>,
                        <<"http", "s://www.linkedin.com", "/jobs/view/", "222">> >>

\* Two anchors that differ only in their query string with another URL
\* between them: two URLs come back.
C1_Witness ==
    /\ links_ok
    /\ Len(job_urls) = 2
    /\ \E i, j \in DOMAIN job_links :
          /\ i + 1 < j
          /\ job_links[i].ok /\ job_links[j].ok
          /\ job_links[i].href # job_links[j].href
          /\ Matching(job_links[i].href)
          /\ Normalized(job_links[i].href) = Normalized(job_links[j].href)

(***************************************************************************)
(* C2.  The list scrape or _extract_job_urls returns is empty when         *)
(* limit <= 0 and never longer than limit otherwise; when the page holds   *)
(* more distinct readable matching normalized URLs than limit, exactly the *)
(* limit earliest-seen ones are returned.                                  *)
(***************************************************************************)
C2_LimitInvariant ==
    returned =>
        /\ limit <= 0 => result = <<>>
        /\ limit > 0 => Len(result) <= limit
        /\ (links_ok /\ limit >= 0 /\ Len(PageUrls(job_links)) > limit) =>
               /\ Len(result) = limit
               /\ result = Take(PageUrls(job_links), limit)

C2_Witness ==
    /\ prog = "scrape"
    /\ returned
    /\ limit = 2
    /\ Len(PageUrls(job_links)) = 3
    /\ Len(result) = 2

(***************************************************************************)
(* C3.  The click-pagination of scrape_saved_jobs.main leaves its loop on  *)
(* the page where the Next control is observed absent or observed          *)
(* disabled; once a disabled control was observed, or the loop was left,   *)
(* no click, scroll or extraction pass follows; and a click is issued only *)
(* right after the control was observed present and enabled, on the same   *)
(* page.                                                                   *)
(***************************************************************************)
PagerStopped == pc \in {"sm_after_loop", "sm_except", "aexit", "done"}

C3_ClickPagination ==
    /\ [][(prog = "scrape_saved_jobs" /\ pc = "sm_next_button" /\ pc' # "sm_except"
             /\ next_button_count' = 0) => pc' = "sm_after_loop"]_vars
    /\ [][(prog = "scrape_saved_jobs" /\ pc = "sm_is_disabled" /\ pc' # "sm_except"
             /\ is_disabled') => pc' = "sm_after_loop"]_vars
    /\ [][(prog = "scrape_saved_jobs" /\ (is_disabled \/ PagerStopped)) =>
             /\ clicks' = clicks
             /\ page_scrolls' = page_scrolls
             /\ passes' = passes
             /\ page_num' = page_num
             /\ PagerStopped']_vars
    /\ [][clicks' # clicks =>
             /\ pc = "sm_click"
             /\ clicks' = clicks + 1
             /\ next_button_count > 0
             /\ ~is_disabled]_vars
    /\ [][(pc' = "sm_click" /\ pc # "sm_click") =>
             /\ pc = "sm_is_disabled"
             /\ next_button_count > 0
             /\ ~is_disabled'
             /\ page_num' = page_num]_vars

\* One click, then a disabled control on the second page.
C3_Witness ==
    /\ prog = "scrape_saved_jobs"
    /\ pc = "sm_after_loop"
    /\ is_disabled
    /\ next_button_count > 0
    /\ page_num = 2
    /\ clicks = 1
    /\ passes = 2

(***************************************************************************)
(* C4.  The login poll of create_session takes no sample after the first   *)
(* one that reports logged-in, takes at most 30 samples, sleeps 10 s       *)
(* before each, ends only by a logged-in sample or with all 30 taken, and  *)
(* never waits more than 300 s + 10 s inside the loop.                     *)
(***************************************************************************)
C4_LoginPollTermination ==
    /\ [](prog = "create_session" =>
            /\ samples <= 30
            /\ waited = 10 * samples
            /\ waited <= 300 + 10
            /\ logged_in => pc # "cs_poll"
            /\ loop_ended => (logged_in \/ samples = 30))
    /\ [][(prog = "create_session" /\ (logged_in \/ loop_ended)) =>
             (samples' = samples /\ waited' = waited)]_vars

\* The budget runs out: 30 samples, none logged in.
C4_Witness ==
    /\ prog = "create_session"
    /\ loop_ended
    /\ ~logged_in
    /\ samples = 30
    /\ waited = 300

(***************************************************************************)
(* C5.  The ScrollPager issues at most max_scrolls scroll actions, also    *)
(* when every sample is larger than the one before, and it issues no       *)
(* scroll action once two consecutive samples are equal: it is then        *)
(* STABLE, having scrolled once per sample after the first.  With          *)
(* max_scrolls = 5 and the samples 10, 10 it stops after the second sample *)
(* with exactly one scroll action issued.                                  *)
(***************************************************************************)
InPager == pc \in {"scroll_SCROLLING", "scroll_STABLE", "scroll_DONE"}

C5_ScrollTermination ==
    /\ [](InPager =>
            /\ scrolls <= max_scrolls
            /\ scrolls = n_samples - 1
            /\ (n_samples >= 2 /\ cur_count = prev_count) => pc = "scroll_STABLE"
            /\ pc = "scroll_DONE" => scrolls = max_scrolls
            /\ (max_scrolls = 5 /\ n_samples = 2 /\ prev_count = 10 /\ cur_count = 10) =>
                   (pc = "scroll_STABLE" /\ scrolls = 1))
    /\ [][scrolls' > scrolls =>
            /\ pc = "scroll_SCROLLING"
            /\ scrolls < max_scrolls
            /\ n_samples >= 2 => cur_count # prev_count]_vars
    /\ [][(pc \in {"scroll_STABLE", "scroll_DONE"} => pc' = "_extract_job_urls")]_vars

\* The spec's example: samples 10, 10 under max_scrolls = 5.
C5_Witness ==
    /\ pc = "scroll_STABLE"
    /\ max_scrolls = 5
    /\ n_samples = 2
    /\ prev_count = 10
    /\ cur_count = 10
    /\ scrolls = 1

(***************************************************************************)
(* C6.  A failure to read one anchor's href leaves that anchor out and     *)
(* nothing else.  _extract_job_urls returns what it returns for the page   *)
(* without the unreadable anchors, never raises, and scrape goes on after  *)
(* it; one pass of the inline extraction of scrape_saved_jobs.main keeps   *)
(* the accumulated URLs and appends what the page without the unreadable   *)
(* anchors adds.                                                           *)
(***************************************************************************)
C6_ElementFailuresAbsorbed ==
    /\ [](links_ok => job_urls = Take(PageUrls(job_links), limit))
    /\ [](prog = "_extract_job_urls" => (exc = NoExc /\ (pc = "done" => returned)))
    /\ [][(prog = "scrape" /\ pc = "_extract_job_urls") =>
             (pc' = "on_progress_90" /\ failure' = failure /\ exc' = exc)]_vars
    /\ [][(prog = "scrape_saved_jobs" /\ pc = "sm_extract" /\ pc' = "sm_next_button") =>
             /\ SubSeq(all_job_urls', 1, Len(all_job_urls)) = all_job_urls
             /\ all_job_urls' = FirstSeen(all_job_urls, ReadableHrefs(job_links'),
                                         Len(ReadableHrefs(job_links')))]_vars

\* An unreadable anchor between two readable ones, both of which come back.
C6_Witness ==
    /\ links_ok
    /\ Len(job_links) = 3
    /\ job_links[1].ok
    /\ ~job_links[2].ok
    /\ job_links[3].ok
    /\ Len(job_urls) = 2

(***************************************************************************)
(* C7.  scrape with limit > 0, after a failure of a step of its try block: *)
(* on_error is called exactly once, last, with the original failure;       *)
(* no list is returned; and scrape raises a ScrapingError whose message    *)
(* carries the failure's description -- or, when on_error itself raised,   *)
(* the exception of on_error.                                              *)
(***************************************************************************)
Count(s, x) == Cardinality({i \in DOMAIN s : s[i] = x})

PageFailed == prog = "scrape" /\ failure # NoExc

Carries(e, f) ==
    /\ e.type = "ScrapingError"
    /\ Len(e.desc) = 1 + Len(f.desc)
    /\ SubSeq(e.desc, 2, Len(e.desc)) = f.desc

C8_AuthenticationErrorRaised ==
    (prog = "scrape" /\ pc = "done" /\ failure.type = "AuthenticationError") =>
        exc.type = "AuthenticationError"

(***************************************************************************)
(* C9.  The three scripts open the browser once, before any other step     *)
(* that uses it, and no run ends with it open: it is closed on every way   *)
(* out of the async with block, exceptions included.  (scrape_job_details  *)
(* reads its URL file first: a run that fails there has opened nothing.)   *)
(***************************************************************************)
Scripts == {"create_session", "scrape_saved_jobs", "scrape_job_details"}

C9_BrowserClosed ==
    /\ []((prog \in Scripts /\ pc = "done") =>
            \/ browser = "closed"
            \/ /\ prog = "scrape_job_details"
               /\ browser = "unopened"
               /\ exc = [type |-> "Error", desc |-> <<"open">>])
    /\ []((prog \in Scripts /\ browser = "unopened") =>
            pc \in {"cs_enter", "sm_enter", "jd_open", "jd_enter", "done"})
    /\ []((prog \in Scripts /\ browser = "closed") => pc = "done")
    /\ [][browser' # browser =>
             \/ browser = "unopened" /\ browser' = "open"
             \/ browser = "open" /\ browser' = "closed"]_vars

\* The result file cannot be written: the exception leaves the script and
\* the browser is closed.
C9_Witness ==
    /\ prog = "scrape_job_details"
    /\ pc = "done"
    /\ exc = [type |-> "Error", desc |-> <<"json.dump">>]
    /\ browser = "closed"

(***************************************************************************)
(* C10.  create_session calls save_session never before its poll loop has  *)
(* ended, and exactly once after it has, whether login was detected or     *)
(* the 30 samples ran out.                                                 *)
(***************************************************************************)
C10_SaveAfterLoop ==
    prog = "create_session" =>
        /\ saves <= 1
        /\ ~loop_ended => saves = 0
        /\ (loop_ended /\ pc \in {"aexit", "done"}) => saves = 1

\* The timeout: no login in 30 samples, and the session was saved.
C10_Witness ==
    /\ prog = "create_session"
    /\ pc = "done"
    /\ loop_ended
    /\ ~logged_in
    /\ samples = 30
    /\ saves = 1

(***************************************************************************)
(* C11.  The accumulator of the click-pagination of scrape_saved_jobs.main *)
(* never holds a URL twice, and every entry is a normalized URL, also when *)
(* a posting comes back on a later page; it changes only by an extraction  *)
(* pass, which keeps what was there as a prefix and appends, in page       *)
(* order, the page's normalized URLs that no earlier page brought.         *)
(***************************************************************************)
NewOnPage(acc, links) ==
    SelectSeq(PageUrls(links), LAMBDA u : \A k \in DOMAIN acc : acc[k] # u)

C11_AccumulatorGrows ==
    /\ [](prog = "scrape_saved_jobs" =>
            /\ NoDuplicates(all_job_urls)
            /\ \A i \in DOMAIN all_job_urls :
                  Normalized(all_job_urls[i]) = all_job_urls[i])
    /\ [][(prog = "scrape_saved_jobs" /\ all_job_urls' # all_job_urls) =>
             /\ pc = "sm_extract"
             /\ Len(all_job_urls') > Len(all_job_urls)
             /\ SubSeq(all_job_urls', 1, Len(all_job_urls)) = all_job_urls]_vars
    /\ [][(prog = "scrape_saved_jobs" /\ passes' = passes + 1) =>
             all_job_urls' = all_job_urls \o NewOnPage(all_job_urls, job_links')]_vars

\* The second page shows, after a new posting, the posting the first page
\* brought: the accumulator holds the first page's URL before the new one.
C11_Witness ==
    /\ prog = "scrape_saved_jobs"
    /\ pc = "sm_next_button"
    /\ page_num = 2
    /\ passes = 2
    /\ Len(job_links) = 2
    /\ job_links[1].ok /\ Matching(job_links[1].href)
    /\ job_links[2].ok /\ Matching(job_links[2].href)
    /\ all_job_urls = <<Normalized(job_links[2].href), Normalized(job_links[1].href)>>
    /\ all_job_urls[1] # all_job_urls[2]

(***************************************************************************)
(* C12.  The click-pagination loop of scrape_saved_jobs.main has no        *)
(* page-count ceiling.  An observation of the control present and enabled  *)
(* is followed by a click whatever the page index is, a click that         *)
(* returns starts the next page with the index one higher, and the index   *)
(* changes in no other way; the loop is left by its break only when the    *)
(* control was observed absent or observed disabled.                       *)
(***************************************************************************)
C12_NoPageCeiling ==
    /\ []((prog = "scrape_saved_jobs" /\ pc = "sm_after_loop") =>
             (next_button_count = 0 \/ is_disabled))
    /\ [][(prog = "scrape_saved_jobs" /\ pc = "sm_is_disabled" /\ pc' # "sm_except"
             /\ ~is_disabled') => pc' = "sm_click"]_vars
    /\ [][(prog = "scrape_saved_jobs" /\ pc = "sm_click" /\ pc' # "sm_except") =>
             (pc' = "sm_scroll" /\ page_num' = page_num + 1)]_vars
    /\ [][(prog = "scrape_saved_jobs" /\ page_num' # page_num) =>
             \/ pc = "sm_click" /\ page_num' = page_num + 1
             \/ pc = "sm_try" /\ page_num' = 1]_vars

\* The control was enabled on every page up to the last one explored, and
\* the next click is due.
C12_Witness ==
    /\ prog = "scrape_saved_jobs"
    /\ pc = "sm_click"
    /\ page_num = MaxPages
    /\ passes = MaxPages
    /\ clicks = MaxPages - 1
    /\ next_button_count > 0
    /\ ~is_disabled

(***************************************************************************)
(* C13.  In SavedJobsScraper.scrape, on_start is the first callback of     *)
(* every run.  The steps of the try block are reached one after the other, *)
(* each only when the one before returned without a failure: navigation,   *)
(* ensure_logged_in, the scroll traversal up to STABLE or DONE, then the   *)
(* link extraction, then on_complete.  on_complete is called at most once, *)
(* after on_start and the two progress reports, with the extracted list,   *)
(* and a list returned after it is that list; a run in which on_complete   *)
(* was called returns that list or, when on_complete raised, calls         *)
(* on_error and returns nothing.                                           *)
(***************************************************************************)
Stage(p) ==
    CASE p = "on_start" -> 0
      [] p = "navigate_and_wait" -> 1
      [] p = "on_progress_10" -> 2
      [] p = "ensure_logged_in" -> 3
      [] p = "wait_for_selector" -> 4
      [] p = "wait_and_focus" -> 5
      [] p = "close_modals" -> 6
      [] p \in {"scroll_READY", "scroll_SCROLLING", "scroll_STABLE", "scroll_DONE"} -> 7
      [] p = "_extract_job_urls" -> 8
      [] p = "on_progress_90" -> 9
      [] p = "on_complete" -> 10
      [] p = "return" -> 11
      [] OTHER -> 12

C13_ScrapeOrdering ==
    /\ [](prog = "scrape" =>
            /\ cb # <<>> => cb[1] = "on_start"
            /\ pc # "on_start" => cb # <<>>
            /\ Stage(pc) < 12 => (failure = NoExc /\ exc = NoExc)
            /\ Stage(pc) < 9 => (~links_ok /\ job_urls = <<>>)
            /\ Stage(pc) < 11 => ~returned
            /\ Count(cb, "on_complete") <= 1
            /\ Count(cb, "on_complete") = 1 =>
                  /\ SubSeq(cb, 1, 4) = <<"on_start", "on_progress", "on_progress", "on_complete">>
                  /\ on_complete_arg = job_urls
                  /\ returned => result = on_complete_arg
                  /\ pc = "done" =>
                        \/ returned
                        \/ /\ failure = Fail("Error", "on_complete")
                           /\ Count(cb, "on_error") = 1)
    /\ [][(prog = "scrape" /\ pc' # pc /\ Stage(pc') < 12) =>
             \/ Stage(pc') = Stage(pc) + 1
             \/ Stage(pc') = 7 /\ Stage(pc) = 7]_vars
    /\ [][(prog = "scrape" /\ pc' = "_extract_job_urls" /\ pc' # pc) =>
             pc \in {"scroll_STABLE", "scroll_DONE"}]_vars
    /\ [][(prog = "scrape" /\ Count(cb', "on_complete") # Count(cb, "on_complete")) =>
             (pc = "on_complete" /\ on_complete_arg' = job_urls)]_vars

\* A run that returns two URLs, on_complete having been given the same two.
C13_Witness ==
    /\ prog = "scrape"
    /\ pc = "done"
    /\ returned
    /\ cb = <<"on_start", "on_progress", "on_progress", "on_complete">>
    /\ Len(result) = 2
    /\ on_complete_arg = result

(***************************************************************************)
(* C14.  In scrape_job_details.main a 3-second wait stands between every   *)
(* two consecutive scrape requests, also when the earlier one failed, and  *)
(* no wait follows the last request.                                       *)
(***************************************************************************)
C14_WaitBetweenRequests ==
    prog = "scrape_job_details" =>
        /\ \A k \in DOMAIN jd_log :
              (jd_log[k].ev = "scrape" /\ k < Len(jd_log)) => jd_log[k + 1].ev = "sleep"
        /\ \A k \in DOMAIN jd_log :
              (jd_log[k].ev = "sleep" /\ k < Len(jd_log)) => jd_log[k + 1].ev = "scrape"
        /\ (url_i = n_urls /\ jd_log # <<>>) => jd_log[Len(jd_log)].ev = "scrape"

(***************************************************************************)
(* C15.  scrape_job_details.main attempts every URL of its input once, in  *)
(* input order; a failed attempt leaves jobs_data as it was and the loop   *)
(* goes on with the next URL; jobs_data holds the records of the           *)
(* successful attempts, in input order, so never more than there are       *)
(* URLs; and the result file is written at most once, only after the last  *)
(* attempt, and exactly once in a run that ends without an exception.      *)
(***************************************************************************)
Attempts(log) == SelectSeq(log, LAMBDA e : e.ev = "scrape")

Successes(log) ==
    LET good == SelectSeq(log, LAMBDA e : e.ev = "scrape" /\ e.ok)
    IN  [k \in 1 .. Len(good) |-> good[k].i]

C15_CatchAndContinue ==
    /\ [](prog = "scrape_job_details" =>
            /\ Len(Attempts(jd_log)) = url_i
            /\ \A k \in 1 .. url_i : Attempts(jd_log)[k].i = k
            /\ url_i <= n_urls
            /\ jobs_data = Successes(jd_log)
            /\ Len(jobs_data) <= n_urls
            /\ written <= 1
            /\ written = 1 => url_i = n_urls
            /\ (pc \in {"aexit", "done"} /\ exc = NoExc) => (written = 1 /\ url_i = n_urls))
    /\ [][(prog = "scrape_job_details" /\ url_i' # url_i) =>
             /\ url_i' = url_i + 1
             /\ pc' = "jd_loop"
             /\ IF Attempts(jd_log')[url_i'].ok
                THEN jobs_data' = Append(jobs_data, url_i')
                ELSE jobs_data' = jobs_data]_vars
    /\ [][(prog = "scrape_job_details" /\ jobs_data' # jobs_data) => url_i' # url_i]_vars

\* Three URLs, the second of which fails: the first and the third record
\* are written.
C15_Witness ==
    /\ prog = "scrape_job_details"
    /\ pc = "done"
    /\ n_urls = 3
    /\ jobs_data = <<1, 3>>
    /\ written = 1
    /\ exc = NoExc

(***************************************************************************)
(* C16.  The manual-login wait of scrape_saved_jobs.main is entered only   *)
(* from the first navigation, when the URL after it matches the            *)
(* login/authwall pattern; it takes at most 24 samples and goes on to      *)
(* save_session at the first sample whose URL matches an authenticated     *)
(* path; save_session is called at most once in a run and only right after *)
(* such a sample, so never after the 24 samples ran out; and the           *)
(* pagination phase comes next after a skipped wait, after a timeout, and  *)
(* after the save and the navigation back when these return.               *)
(***************************************************************************)
SamplesTaken == IF pc \in {"sm_save_session", "sm_goto_back"} THEN wait_i + 1 ELSE wait_i

C17_PollReporting ==
    /\ [](prog = "create_session" =>
            /\ samples \in 0 .. 30
            /\ (samples >= 1 /\ exc = NoExc) =>
                  /\ time_elapsed = 10 * samples
                  /\ time_remaining = 300 - 10 * samples
            /\ time_elapsed > 0 =>
                  /\ time_elapsed + time_remaining = 300
                  /\ time_remaining >= 0
                  /\ time_remaining = 0 <=> time_elapsed = 300
                  /\ time_elapsed <= waited)
    /\ [][(prog = "create_session" /\ time_elapsed' # time_elapsed) =>
             /\ samples' = samples + 1
             /\ waited' = waited + 10
             /\ waited' = 10 * samples'
             /\ time_elapsed' = 10 * samples'
             /\ time_remaining' = 300 - 10 * samples']_vars
    /\ [][(prog = "create_session" /\ samples' # samples) =>
             (samples' = samples + 1 /\ waited' = waited + 10)]_vars

\* The last possible sample: 300 s elapsed, none remaining.
C17_Witness ==
    /\ prog = "create_session"
    /\ samples = 30
    /\ waited = 300
    /\ time_elapsed = 300
    /\ time_remaining = 0
    /\ exc = NoExc

(***************************************************************************)
(* C18.  Every run of SavedJobsScraper.scrape calls on_start exactly once  *)
(* and ends with exactly one terminal callback: on_complete when it        *)
(* returns a list, on_error when it raises; never both, never neither.     *)
(***************************************************************************)
Ended == prog = "scrape" /\ pc = "done"

C18_ExactlyOneTerminal ==
    Ended =>
        /\ Count(cb, "on_start") = 1
        /\ Count(cb, "on_complete") + Count(cb, "on_error") = 1
        /\ returned <=> Count(cb, "on_complete") = 1
        /\ ~returned <=> Count(cb, "on_error") = 1

(***************************************************************************)
(* C19.  The wait loop of scrape_saved_jobs.main declares the login        *)
(* detected, and goes on to save the session, only for a URL that holds    *)
(* neither "login" nor "authwall".                                         *)
(***************************************************************************)
C19_ExclusiveClassification ==
    (prog = "scrape_saved_jobs" /\ pc \in {"sm_save_session", "sm_goto_back"}) =>
        ~OnLoginPage(current_url)

(***************************************************************************)
(* C20.  For the anchors of one page, unreadable ones included, and a      *)
(* limit of at least their number, _extract_job_urls returns the list that *)
(* one pass of the inline extraction of scrape_saved_jobs.main builds from *)
(* an empty accumulator; and the first pass of the inline extraction       *)
(* builds the list _extract_job_urls returns for the page under such a     *)
(* limit.                                                                  *)
(***************************************************************************)
C20_ExtractionsAgree ==
    /\ (prog \in {"scrape", "_extract_job_urls"} /\ links_ok /\ limit >= Len(job_links)) =>
          job_urls = InlineLoop(job_links, 1, <<>>)
    /\ (prog = "scrape_saved_jobs" /\ pc = "sm_next_button" /\ passes = 1) =>
          all_job_urls = ExtractJobUrls(TRUE, job_links, Len(job_links))

\* Three anchors under limit 3: a posting, an unreadable anchor, the same
\* posting under another href; one URL comes back.
C20_Witness ==
    /\ prog = "_extract_job_urls"
    /\ pc = "done"
    /\ links_ok
    /\ limit = 3
    /\ Len(job_links) = 3
    /\ job_links[1].ok /\ ~job_links[2].ok /\ job_links[3].ok
    /\ Matching(job_links[1].href)
    /\ job_links[1].href # job_links[3].href
    /\ Normalized(job_links[1].href) = Normalized(job_links[3].href)
    /\ result = <<Normalized(job_links[1].href)>>

====
